---- MODULE Spec2Model ----
(***************************************************************************)
(* Model of util/principles/fp_016.py, the "maintenance" dashboard check:  *)
(* is_maintained, big_is_maintained and the shared check_version_iri.      *)
(*                                                                         *)
(* Strings that the regular expression inspects are sequences of           *)
(* one-character strings.  A datetime is a pair <<ordinal day, tick of     *)
(* day>>; tick 0 is midnight.  A return value is a record: kind "return"   *)
(* with the level and message list handed to format_msg (level "PASS" and  *)
(* no message for the bare 'PASS'), or kind "raise" for an exception that  *)
(* leaves the function.                                                    *)
(***************************************************************************)
EXTENDS Integers, Sequences, FiniteSets, TLC

VARIABLES now, call, ret, reads, queried, checked, seen

vars == <<now, call, ret, reads, queried, checked, seen>>

-----------------------------------------------------------------------------
(* Bounds of the model *)

\* resolution of the clock within one day (tick 0 is midnight)
TicksPerDay == 2

\* how many clock points the clock may jump between two reads of it
MaxSkip == 1

\* number of pieces an identifier of the matching specification is built of
MaxPieces == 3

-----------------------------------------------------------------------------
(* Strings *)

Newline == "\n"

Digits == {"0", "1", "2", "3", "4", "5", "6", "7", "8", "9"}

\* the literal head of vpat: http:\/\/purl\.obolibrary\.org/obo/
Prefix ==
    <<"h", "t", "t", "p", ":", "/", "/", "p", "u", "r", "l", ".",
      "o", "b", "o", "l", "i", "b", "r", "a", "r", "y", ".",
      "o", "r", "g", "/", "o", "b", "o", "/">>

\* [0-9]{4}-[0-9]{2}-[0-9]{2} at positions j .. j+9 of s
DateShapeAt(s, j) ==
    /\ j >= 1
    /\ j + 9 <= Len(s)
    /\ \A k \in {0, 1, 2, 3, 5, 6, 8, 9} : s[j + k] \in Digits
    /\ s[j + 4] = "-"
    /\ s[j + 7] = "-"

\* the literal head of vpat at positions i .. i+30 of s
PrefixAt(s, i) ==
    /\ i + Len(Prefix) - 1 <= Len(s)
    /\ \A k \in 1..Len(Prefix) : s[i + k - 1] = Prefix[k]

\* the rest of vpat after the first .* : /([0-9]{4}-[0-9]{2}-[0-9]{2})/.*
\* with the first '/' at position j (the closing .* matches the empty string)
TailAtNoSlash(s, j) ==
    /\ j >= 1
    /\ j + 10 <= Len(s)
    /\ s[j] = "/"
    /\ DateShapeAt(s, j + 1)

TailAt(s, j) ==
    /\ j >= 1
    /\ j + 11 <= Len(s)
    /\ s[j] = "/"
    /\ DateShapeAt(s, j + 1)
    /\ s[j + 11] = "/"

\* number of characters the greedy .* takes from position e: '.' matches
\* every character but the line break
RECURSIVE DotRun(_, _)
DotRun(s, e) ==
    IF e > Len(s) \/ s[e] = Newline THEN 0 ELSE 1 + DotRun(s, e + 1)

\* backtracking of the greedy .* that starts at e: longest first
RECURSIVE Backtrack(_, _, _)
Backtrack(s, e, k) ==
    IF TailAt(s, e + k) THEN e + k
    ELSE IF k = 0 THEN 0
    ELSE Backtrack(s, e, k - 1)

\* the lazy alternative (.*?): shortest first
RECURSIVE BacktrackLazy(_, _, _)
BacktrackLazy(s, e, k) ==
    IF TailAt(s, e + k) THEN e + k
    ELSE IF e + k >= Len(s) \/ s[e + k] = Newline THEN 0
    ELSE BacktrackLazy(s, e, k + 1)

\* a match of vpat that starts at position i: the position of the '/' before
\* the captured group, 0 when there is none
MatchAtLazy(s, i) ==
    IF PrefixAt(s, i) THEN BacktrackLazy(s, i + Len(Prefix), 0) ELSE 0

MatchAt(s, i) ==
    IF PrefixAt(s, i)
    THEN Backtrack(s, i + Len(Prefix), DotRun(s, i + Len(Prefix)))
    ELSE 0

\* re.search(vpat, s): the leftmost start that matches; the result is the
\* position of the '/' before group 1, 0 for None
RECURSIVE SearchFrom(_, _)
SearchFrom(s, i) ==
    IF i > Len(s) THEN 0
    ELSE LET j == MatchAt(s, i) IN
         IF j # 0 THEN j ELSE SearchFrom(s, i + 1)

ReSearch(s) == SearchFrom(s, 1)

\* search.group(1)
Group1(s, j) == SubSeq(s, j + 1, j + 10)

-----------------------------------------------------------------------------
(* Dates *)

DigitVal(c) ==
    CASE c = "0" -> 0 [] c = "1" -> 1 [] c = "2" -> 2 [] c = "3" -> 3
      [] c = "4" -> 4 [] c = "5" -> 5 [] c = "6" -> 6 [] c = "7" -> 7
      [] c = "8" -> 8 [] c = "9" -> 9

\* int() of a string of decimal digits
RECURSIVE ParseInt(_)
ParseInt(ds) ==
    IF ds = <<>> THEN 0
    ELSE 10 * ParseInt(SubSeq(ds, 1, Len(ds) - 1)) + DigitVal(ds[Len(ds)])

\* date.split('-') of a string of the shape YYYY-MM-DD
Splits(date) == <<SubSeq(date, 1, 4), SubSeq(date, 6, 7), SubSeq(date, 9, 10)>>

IsLeap(y) == y % 4 = 0 /\ (y % 100 # 0 \/ y % 400 = 0)

DaysInMonth(y, m) ==
    IF m = 2 THEN (IF IsLeap(y) THEN 29 ELSE 28)
    ELSE IF m \in {4, 6, 9, 11} THEN 30 ELSE 31

\* the arguments datetime.datetime(y, m, d) accepts; anything else is a
\* ValueError
ValidDate(y, m, d) ==
    /\ y >= 1 /\ y <= 9999
    /\ m >= 1 /\ m <= 12
    /\ d >= 1 /\ d <= DaysInMonth(y, m)

RECURSIVE DaysBeforeMonth(_, _)
DaysBeforeMonth(y, m) ==
    IF m = 1 THEN 0 ELSE DaysBeforeMonth(y, m - 1) + DaysInMonth(y, m - 1)

DaysBeforeYear(y) ==
    (y - 1) * 365 + ((y - 1) \div 4) - ((y - 1) \div 100) + ((y - 1) \div 400)

\* proleptic Gregorian ordinal of a valid date, 0001-01-01 is day 1
Ordinal(y, m, d) == DaysBeforeYear(y) + DaysBeforeMonth(y, m) + d

\* datetime.datetime(y, m, d): midnight of that day
MkDatetime(y, m, d) == <<Ordinal(y, m, d), 0>>

\* datetime <= datetime
BeforeOrEqual(a, b) == a[1] < b[1] \/ (a[1] = b[1] /\ a[2] <= b[2])

\* datetime > datetime
After(a, b) == a[1] > b[1] \/ (a[1] = b[1] /\ a[2] > b[2])

\* datetime < datetime
Before(a, b) == a[1] < b[1] \/ (a[1] = b[1] /\ a[2] < b[2])

\* datetime - datetime.timedelta(days=n)
MinusDays(t, n) == <<t[1] - n, t[2]>>

-----------------------------------------------------------------------------
(* Return values *)

old_version_msg == "last version ({0}) is over {1} year(s) old"

\* old_version_msg.format(date, word): the template with its two arguments
\* in place, the first one character by character as it was given
StrFormat(fmt, a0, a1) == [fmt |-> fmt, a0 |-> a0, a1 |-> a1]

\* a message without placeholders
Lit(text) == [fmt |-> text, a0 |-> <<>>, a1 |-> ""]

\* dash_utils.format_msg(level, msgs): the level tag and the message list
format_msg(level, msgs) == [kind |-> "return", level |-> level, msgs |-> msgs]

\* return 'PASS'
Pass == [kind |-> "return", level |-> "PASS", msgs |-> <<>>]

\* an exception that leaves the function
Raise(e) == [kind |-> "raise", level |-> e, msgs |-> <<>>]

\* no call has returned yet
NoRet == [kind |-> "none", level |-> "", msgs |-> <<>>]

-----------------------------------------------------------------------------
(* The checks *)

\* datetime.timedelta(days=3*365), days=2*365, days=365
FourYears == 4 * 365
ThreeYears == 3 * 365
TwoYears == 2 * 365
OneYear == 1 * 365

\* The head of check_version_iri: the search for the pattern and the
\* construction of the date.  matched is whether re.search found the
\* pattern, date is group 1, raised is whether datetime.datetime refused
\* the numbers, version_date is the datetime it built otherwise.
search_date(version_iri) ==
    LET search == ReSearch(version_iri) IN
    IF search # 0
    THEN LET date   == Group1(version_iri, search)
             splits == Splits(date)
             y      == ParseInt(splits[1])
             m      == ParseInt(splits[2])
             d      == ParseInt(splits[3])
         IN  IF ValidDate(y, m, d)
             THEN [matched |-> TRUE, raised |-> FALSE, date |-> date,
                   version_date |-> MkDatetime(y, m, d)]
             ELSE [matched |-> TRUE, raised |-> TRUE, date |-> date,
                   version_date |-> <<0, 0>>]
    ELSE [matched |-> FALSE, raised |-> FALSE, date |-> <<>>,
          version_date |-> <<0, 0>>]

\* The rest of check_version_iri, after the head gave p; t1, t2, t3 are
\* what the three calls of datetime.datetime.now() give, in this order,
\* when they are reached.  The result is the return value and the clock
\* reads that were made.
check_age(p, t1, t2, t3) ==
    IF p.matched
    THEN IF p.raised
         THEN [ret |-> Raise("ValueError"), reads |-> <<>>]
         ELSE IF Before(p.version_date, MinusDays(t1, ThreeYears))
         THEN [ret |-> format_msg("ERROR",
                          <<StrFormat(old_version_msg, p.date, "three")>>),
               reads |-> <<t1>>]
         ELSE IF Before(p.version_date, MinusDays(t2, TwoYears))
         THEN [ret |-> format_msg("WARN",
                          <<StrFormat(old_version_msg, p.date, "two")>>),
               reads |-> <<t1, t2>>]
         ELSE IF Before(p.version_date, MinusDays(t3, OneYear))
         THEN [ret |-> format_msg("INFO",
                          <<StrFormat(old_version_msg, p.date, "one")>>),
               reads |-> <<t1, t2, t3>>]
         ELSE [ret |-> Pass, reads |-> <<t1, t2, t3>>]
    ELSE [ret |-> format_msg("INFO",
                     <<Lit("version IRI does not have date information")>>),
          reads |-> <<>>]

\* check_version_iri(version_iri)
check_version_iri(version_iri, t1, t2, t3) ==
    check_age(search_date(version_iri), t1, t2, t3)

\* An ontology handle: present = FALSE is None; hasVersion = FALSE is a
\* handle whose getVersionIRI().orNull() is null; versionIRI is what
\* toString() of the version IRI gives.
\* The result adds whether the handle was queried and whether
\* check_version_iri was called.
is_maintained_queryfirst(ontology, t1, t2, t3) ==
    IF ontology.present /\ ontology.hasVersion
    THEN LET r == check_version_iri(ontology.versionIRI, t1, t2, t3) IN
         [ret |-> r.ret, reads |-> r.reads, queried |-> TRUE, checked |-> TRUE]
    ELSE IF ~ontology.present
    THEN [ret |-> format_msg("INFO", <<Lit("unable to load ontology")>>),
          reads |-> <<>>, queried |-> TRUE, checked |-> FALSE]
    ELSE [ret |-> format_msg("INFO", <<Lit("missing version IRI to check date")>>),
          reads |-> <<>>, queried |-> TRUE, checked |-> FALSE]

is_maintained(ontology, t1, t2, t3) ==
    IF ~ontology.present
    THEN [ret |-> format_msg("INFO", <<Lit("unable to load ontology")>>),
          reads |-> <<>>, queried |-> FALSE, checked |-> FALSE]
    ELSE IF ontology.hasVersion
    THEN LET r == check_version_iri(ontology.versionIRI, t1, t2, t3) IN
         [ret |-> r.ret, reads |-> r.reads, queried |-> TRUE, checked |-> TRUE]
    ELSE [ret |-> format_msg("INFO", <<Lit("missing version IRI to check date")>>),
          reads |-> <<>>, queried |-> TRUE, checked |-> FALSE]

\* big_is_maintained(file); scan is what dash_utils.get_version_iri(file)
\* gave: present = FALSE is None, otherwise the string versionIRI
\* (<<>> is the empty string).
big_is_maintained_swapped(scan, t1, t2, t3) ==
    IF scan.present /\ scan.versionIRI # <<>>
    THEN LET r == check_version_iri(scan.versionIRI, t1, t2, t3) IN
         [ret |-> r.ret, reads |-> r.reads, queried |-> FALSE, checked |-> TRUE]
    ELSE IF scan.present /\ scan.versionIRI = <<>>
    THEN [ret |-> format_msg("INFO", <<Lit("unable to parse ontology")>>),
          reads |-> <<>>, queried |-> FALSE, checked |-> FALSE]
    ELSE [ret |-> format_msg("INFO", <<Lit("missing version IRI to check date")>>),
          reads |-> <<>>, queried |-> FALSE, checked |-> FALSE]

big_is_maintained(scan, t1, t2, t3) ==
    IF scan.present /\ scan.versionIRI # <<>>
    THEN LET r == check_version_iri(scan.versionIRI, t1, t2, t3) IN
         [ret |-> r.ret, reads |-> r.reads, queried |-> FALSE, checked |-> TRUE]
    ELSE IF scan.present /\ scan.versionIRI = <<>>
    THEN [ret |-> format_msg("INFO", <<Lit("missing version IRI to check date")>>),
          reads |-> <<>>, queried |-> FALSE, checked |-> FALSE]
    ELSE [ret |-> format_msg("INFO", <<Lit("unable to parse ontology")>>),
          reads |-> <<>>, queried |-> FALSE, checked |-> FALSE]

-----------------------------------------------------------------------------
(* The wall clock *)

\* 2024-01-01, the day the clock points are laid out from
Epoch == Ordinal(2024, 1, 1)

\* the days on which the clock is looked at: the day before the epoch and
\* the days exactly and one more than one, two and three times 365 days
\* after it
DayOffsets == {-1, 365, 366, 730, 731, 1095, 1096}

ClockPoints == {<<Epoch + k, t>> : k \in DayOffsets, t \in 0..(TicksPerDay - 1)}

\* the clock points datetime.datetime.now() can give when the previous read
\* gave t: the clock never goes backwards
LastPoint == <<Epoch + 1096, TicksPerDay - 1>>

\* the clock point that follows t
NextPoint(t) ==
    IF t[2] < TicksPerDay - 1 THEN <<t[1], t[2] + 1>>
    ELSE LET later == {k \in DayOffsets : Epoch + k > t[1]}
             k == CHOOSE x \in later : \A z \in later : x <= z
         IN  <<Epoch + k, 0>>

RECURSIVE PointsAfter(_, _)
PointsAfter(t, n) ==
    IF n = 0 \/ t = LastPoint THEN {}
    ELSE {NextPoint(t)} \cup PointsAfter(NextPoint(t), n - 1)

AdvanceTo(t) == {t} \cup PointsAfter(t, MaxSkip)

-----------------------------------------------------------------------------
(* Inputs *)

Seg == <<"g", "o">>
File == <<"g", "o", ".", "o", "w", "l">>
Slash == <<"/">>

D2019 == <<"2", "0", "1", "9", "-", "0", "6", "-", "0", "1">>
D2024 == <<"2", "0", "2", "4", "-", "0", "1", "-", "0", "1">>
BadDay == <<"2", "0", "2", "4", "-", "0", "2", "-", "3", "0">>
BadMonth == <<"2", "0", "2", "3", "-", "1", "3", "-", "0", "1">>
BadYear == <<"0", "0", "0", "0", "-", "0", "1", "-", "0", "1">>

\* http://purl.obolibrary.org/obo/go/<date>/go.owl
DatedIri(date) == Prefix \o Seg \o Slash \o date \o Slash \o File

\* http://purl.obolibrary.org/obo/go/go.owl
UndatedIri == Prefix \o Seg \o Slash \o File

\* the identifiers the entry points are called with
IriInputs ==
    {DatedIri(D2019), DatedIri(D2024), DatedIri(BadDay), DatedIri(BadMonth),
     DatedIri(BadYear), UndatedIri}

\* the identifiers with a date that datetime.datetime accepts
DatedInputs == {DatedIri(D2019), DatedIri(D2024)}

\* the identifier whose returned levels are recorded
Monitored == {DatedIri(D2024)}

\* the identifiers the two adapters hand on
AdapterIris == {DatedIri(D2024), DatedIri(BadDay), UndatedIri}

\* the ontology handles is_maintained is called with
OntologyInputs ==
    {[present |-> FALSE, hasVersion |-> FALSE, versionIRI |-> <<>>],
     [present |-> TRUE, hasVersion |-> FALSE, versionIRI |-> <<>>]}
    \cup {[present |-> TRUE, hasVersion |-> TRUE, versionIRI |-> v] :
              v \in AdapterIris}

\* the results of dash_utils.get_version_iri: None, '' or a string
ScanInputs ==
    {[present |-> FALSE, versionIRI |-> <<>>]}
    \cup {[present |-> TRUE, versionIRI |-> v] : v \in AdapterIris \cup {<<>>}}

\* the pieces the identifiers of the matching specification are built of
PieceSet ==
    {<<"g">>, Slash, <<Newline>>, Slash \o D2019, Slash \o D2024 \o Slash,
     D2019 \o Slash, Slash \o BadDay \o Slash}

Leads == {<<>>, Prefix, <<"g">> \o Prefix, Prefix \o <<Newline>> \o Prefix}

RECURSIVE Bodies(_)
Bodies(n) ==
    IF n = 0 THEN {<<>>}
    ELSE Bodies(n - 1) \cup {b \o q : b \in Bodies(n - 1), q \in PieceSet}

MatchInputs == {l \o b : l \in Leads, b \in Bodies(MaxPieces)}

\* the clock readings of the matching specification
MatchClocks == {<<Epoch + 366, 0>>, <<Epoch + 365, 1>>}

-----------------------------------------------------------------------------
(* State machine *)

NoCall == [fn |-> "none", present |-> TRUE, hasVersion |-> TRUE, iri |-> <<>>]

Init ==
    /\ now \in ClockPoints
    /\ call = NoCall
    /\ ret = NoRet
    /\ reads = <<>>
    /\ queried = FALSE
    /\ checked = FALSE
    /\ seen = [v \in Monitored |-> {}]

\* the state a call leaves: its arguments c, its outcome r, the clock at the
\* last read the call made, and the levels check_version_iri has returned
\* for each identifier so far
Finish(c, r) ==
    /\ call' = c
    /\ ret' = r.ret
    /\ reads' = r.reads
    /\ queried' = r.queried
    /\ checked' = r.checked
    /\ now' = IF r.reads = <<>> THEN now ELSE r.reads[Len(r.reads)]
    /\ seen' = IF r.checked /\ r.ret.kind = "return" /\ c.iri \in DOMAIN seen
               THEN [seen EXCEPT ![c.iri] = @ \cup {r.ret.level}]
               ELSE seen

\* time passes between two calls
Tick ==
    /\ \E p \in AdvanceTo(now) \ {now} : now' = p
    /\ UNCHANGED <<call, ret, reads, queried, checked, seen>>

CallCheckVersionIri ==
    \E v \in IriInputs : \E p \in {search_date(v)} :
    \E t2 \in AdvanceTo(now) : \E t3 \in AdvanceTo(t2) :
        \E r \in {check_age(p, now, t2, t3)} :
            Finish([fn |-> "check_version_iri", present |-> TRUE,
                    hasVersion |-> TRUE, iri |-> v],
                   [ret |-> r.ret, reads |-> r.reads, queried |-> FALSE,
                    checked |-> TRUE])

CallIsMaintained ==
    \E o \in OntologyInputs : \E t2 \in AdvanceTo(now) : \E t3 \in AdvanceTo(t2) :
        \E r \in {is_maintained(o, now, t2, t3)} :
            Finish([fn |-> "is_maintained", present |-> o.present,
                    hasVersion |-> o.hasVersion, iri |-> o.versionIRI], r)

CallBigIsMaintained ==
    \E f \in ScanInputs : \E t2 \in AdvanceTo(now) : \E t3 \in AdvanceTo(t2) :
        \E r \in {big_is_maintained(f, now, t2, t3)} :
            Finish([fn |-> "big_is_maintained", present |-> f.present,
                    hasVersion |-> f.present, iri |-> f.versionIRI], r)

Next ==
    \/ Tick
    \/ CallCheckVersionIri
    \/ CallIsMaintained
    \/ CallBigIsMaintained

Spec == Init /\ [][Next]_vars

\* The matching specification: check_version_iri applied once to each
\* identifier of MatchInputs, the clock standing still
InitMatch ==
    /\ now \in MatchClocks
    /\ call \in {[fn |-> "none", present |-> TRUE, hasVersion |-> TRUE,
                   iri |-> v] : v \in MatchInputs}
    /\ ret = NoRet
    /\ reads = <<>>
    /\ queried = FALSE
    /\ checked = FALSE
    /\ seen = [v \in Monitored |-> {}]

MatchCall ==
    /\ call.fn = "none"
    /\ \E r \in {check_version_iri(call.iri, now, now, now)} :
           Finish([call EXCEPT !.fn = "check_version_iri"],
                  [ret |-> r.ret, reads |-> r.reads, queried |-> FALSE,
                   checked |-> TRUE])

NextMatch == MatchCall

SpecMatch == InitMatch /\ [][NextMatch]_vars

-----------------------------------------------------------------------------
(* Vocabulary of the properties *)

Levels == {"PASS", "INFO", "WARN", "ERROR"}

\* PASS < INFO < WARN < ERROR
Rank(l) == CASE l = "PASS" -> 0 [] l = "INFO" -> 1 [] l = "WARN" -> 2
             [] l = "ERROR" -> 3

\* the day the date in a dated input stands for
VersionDay(v) ==
    IF v = DatedIri(D2019) THEN Ordinal(2019, 6, 1) ELSE Ordinal(2024, 1, 1)

\* the date as it is written in a dated input
VersionDate(v) == IF v = DatedIri(D2019) THEN D2019 ELSE D2024

\* the last call reached the thresholds and every clock read of it gave the
\* same instant
OneInstant == reads # <<>> /\ \A i \in 1..Len(reads) : reads[i] = now

\* the last call handed a dated input to check_version_iri
DatedCall == checked /\ call.iri \in DatedInputs

\* instant t is more than n days after midnight of day vd
Over(vd, t, n) == t[1] - vd > n \/ (t[1] - vd = n /\ t[2] > 0)

\* the severity of a version of day vd when the clock is read once, at t
SingleRead(vd, t) ==
    IF Over(vd, t, 1095) THEN "ERROR"
    ELSE IF Over(vd, t, 730) THEN "WARN"
    ELSE IF Over(vd, t, 365) THEN "INFO"
    ELSE "PASS"

\* from instant a to instant b it is less than n days
SpanUnder(a, b, n) == b[1] - a[1] < n \/ (b[1] - a[1] = n /\ b[2] < a[2])

\* instant a is not after instant b
NotAfter(a, b) == a[1] < b[1] \/ (a[1] = b[1] /\ a[2] <= b[2])

\* the instants of the clock from a to b
Instants(a, b) ==
    {t \in (a[1]..b[1]) \X (0..(TicksPerDay - 1)) :
        NotAfter(a, t) /\ NotAfter(t, b)}

\* the i-th clock read of the last call (the clock where none was made)
ReadOr(i) == IF i <= Len(reads) THEN reads[i] ELSE now

UndatedMsg ==
    format_msg("INFO", <<Lit("version IRI does not have date information")>>)
MissingMsg == format_msg("INFO", <<Lit("missing version IRI to check date")>>)
UnparsedMsg == format_msg("INFO", <<Lit("unable to parse ontology")>>)
UnloadedMsg == format_msg("INFO", <<Lit("unable to load ontology")>>)

\* '/YYYY-MM-DD/' at position j of s
DateSegAt(s, j) ==
    /\ j + 11 <= Len(s)
    /\ s[j] = "/"
    /\ DateShapeAt(s, j + 1)
    /\ s[j + 11] = "/"

\* the prefix at i, a date segment at j after it, no line break in between
PatternAt(s, i, j) ==
    /\ PrefixAt(s, i)
    /\ j >= i + Len(Prefix)
    /\ DateSegAt(s, j)
    /\ \A k \in (i + Len(Prefix))..(j - 1) : s[k] # Newline

\* s contains the pattern: the prefix, a segment, '/', YYYY-MM-DD, '/'
HasDatePattern(s) ==
    \E i \in 1..Len(s) :
        PrefixAt(s, i) /\ \E j \in (i + Len(Prefix))..Len(s) : PatternAt(s, i, j)

\* the positions of the date segments after a prefix
SegsAfterPrefix(s) ==
    {j \in 1..Len(s) : DateSegAt(s, j)
        /\ \E i \in 1..(j - Len(Prefix)) : PrefixAt(s, i)}

MinOf(S) == CHOOSE x \in S : \A z \in S : x <= z
MaxOf(S) == CHOOSE x \in S : \A z \in S : x >= z

\* the first date segment after the prefix
FirstDate(s) ==
    LET j == MinOf(SegsAfterPrefix(s)) IN SubSeq(s, j + 1, j + 10)

\* the last date segment on the line of the first prefix that has one
LastDate(s) ==
    LET i == MinOf({x \in 1..Len(s) :
                       PrefixAt(s, x)
                       /\ \E j \in (x + Len(Prefix))..Len(s) : PatternAt(s, x, j)})
        j == MaxOf({x \in (i + Len(Prefix))..Len(s) : PatternAt(s, i, x)})
    IN  SubSeq(s, j + 1, j + 10)

\* what check_version_iri gives for the identifier that has only this date
OutcomeOfDate(date) == check_version_iri(DatedIri(date), now, now, now).ret

-----------------------------------------------------------------------------
(* Properties *)

\* C1 (as stated): a date exactly k whole days before the current date is
\* classified by k alone, whatever the time of day: ERROR when k > 1095,
\* WARN when 730 < k <= 1095, INFO when 365 < k <= 730, PASS when k <= 365.
C1_ByWholeDays ==
    (DatedCall /\ OneInstant) =>
        LET k == now[1] - VersionDay(call.iri) IN
        /\ ret.kind = "return"
        /\ ret.level = (IF k > 1095 THEN "ERROR"
                        ELSE IF k > 730 THEN "WARN"
                        ELSE IF k > 365 THEN "INFO"
                        ELSE "PASS")

\* C1 (amended): the age is measured from midnight of the version date to
\* the instant of the call, so k days and a time of day past midnight is
\* over a threshold of k days: ERROR when the age is more than 1095 days,
\* WARN when more than 730, INFO when more than 365, PASS otherwise; a date
\* exactly 1095, 730 or 365 days old is not over the threshold at midnight
\* only.
C1_ByElapsedTime ==
    (DatedCall /\ OneInstant) =>
        /\ ret.kind = "return"
        /\ ret.level = SingleRead(VersionDay(call.iri), now)

C1_Witness ==
    /\ DatedCall /\ OneInstant
    /\ now[1] - VersionDay(call.iri) = 1095
    /\ now[2] > 0
    /\ ret.level = "ERROR"

\* C2 (as stated): no call of an entry point lets an exception escape;
\* every call returns a classification.
C2_NoException == call.fn # "none" => ret.kind = "return"

\* C3: an identifier that does not contain the pattern gets INFO 'version
\* IRI does not have date information', whatever the clock says.
C3_UndatedInfo ==
    (call.fn = "check_version_iri" /\ ~HasDatePattern(call.iri)) =>
        ret = UndatedMsg

C3_Witness ==
    /\ call.fn = "check_version_iri"
    /\ ~HasDatePattern(call.iri)
    /\ PrefixAt(call.iri, 1)
    /\ \E j \in 1..Len(call.iri) : DateShapeAt(call.iri, j)
    /\ ret = UndatedMsg

\* C4: big_is_maintained gives the result of check_version_iri for a
\* non-empty scan result, INFO 'missing version IRI to check date' for the
\* empty string and INFO 'unable to parse ontology' for None.
C4_ScanMapping ==
    call.fn = "big_is_maintained" =>
        /\ (call.present /\ call.iri # <<>>) =>
              /\ checked
              /\ ret = check_version_iri(call.iri, ReadOr(1), ReadOr(2),
                                         ReadOr(3)).ret
        /\ (call.present /\ call.iri = <<>>) => (~checked /\ ret = MissingMsg)
        /\ ~call.present => (~checked /\ ret = UnparsedMsg)

C4_Witness ==
    /\ call.fn = "big_is_maintained"
    /\ call.present
    /\ call.iri = <<>>
    /\ ret = MissingMsg

\* C5: is_maintained gives INFO 'unable to load ontology' for None without
\* querying the handle, INFO 'missing version IRI to check date' for a
\* handle without version IRI, and the result of check_version_iri on the
\* version IRI otherwise.
C5_HandleMapping ==
    call.fn = "is_maintained" =>
        /\ ~call.present => (~queried /\ ~checked /\ ret = UnloadedMsg)
        /\ (call.present /\ ~call.hasVersion) =>
              (queried /\ ~checked /\ ret = MissingMsg)
        /\ (call.present /\ call.hasVersion) =>
              /\ queried /\ checked
              /\ ret = check_version_iri(call.iri, ReadOr(1), ReadOr(2),
                                         ReadOr(3)).ret

C5_Witness ==
    /\ call.fn = "is_maintained"
    /\ ~call.present
    /\ ~queried
    /\ ret = UnloadedMsg

\* C7 (as stated): every call of check_version_iri ends in exactly one of
\* PASS, INFO, WARN, ERROR with at most one message, and a date older than
\* 3 x 365 days gets ERROR with the 'three' message only.
C7_OneOutcome ==
    checked =>
        /\ ret.kind = "return"
        /\ ret.level \in Levels
        /\ Len(ret.msgs) <= 1
        /\ (call.iri \in DatedInputs /\ reads # <<>>
              /\ Over(VersionDay(call.iri), reads[1], 1095)) =>
                 ret = format_msg("ERROR",
                          <<StrFormat(old_version_msg,
                                      VersionDate(call.iri),
                                      "three")>>)

\* C8 (as stated): of several date segments after the prefix, the first is
\* the one captured, classified by age and embedded in the message.
C8_FirstDate ==
    (call.fn = "check_version_iri" /\ HasDatePattern(call.iri)
        /\ Cardinality(SegsAfterPrefix(call.iri)) > 1) =>
        ret = OutcomeOfDate(FirstDate(call.iri))

\* C8 (amended): the match before the date is greedy; of several date
\* segments after the prefix, the one captured, classified by age and
\* embedded in the message is the last one that no line break separates
\* from the first prefix that has such a segment.
C8_LastDate ==
    (call.fn = "check_version_iri" /\ HasDatePattern(call.iri)
        /\ Cardinality(SegsAfterPrefix(call.iri)) > 1) =>
        ret = OutcomeOfDate(LastDate(call.iri))

C8_Witness ==
    /\ call.fn = "check_version_iri"
    /\ HasDatePattern(call.iri)
    /\ Cardinality(SegsAfterPrefix(call.iri)) > 1
    /\ FirstDate(call.iri) = D2019
    /\ LastDate(call.iri) = D2024
    /\ ret.msgs # <<>>
    /\ ret.msgs[1].a0 = D2024

\* C9: when the clock moves on by less than 365 days between the reads of
\* one call, the severity returned is the severity a single read at some
\* instant from the first to the last read of the call would give.
C9_NoFlapping ==
    (DatedCall /\ ret.kind = "return" /\ reads # <<>>
        /\ SpanUnder(reads[1], reads[Len(reads)], 365)) =>
        \E t \in Instants(reads[1], reads[Len(reads)]) :
            SingleRead(VersionDay(call.iri), t) = ret.level

C9_Witness ==
    /\ DatedCall
    /\ ret.kind = "return"
    /\ Len(reads) >= 2
    /\ reads[1] # reads[Len(reads)]
    /\ SingleRead(VersionDay(call.iri), reads[1]) # ret.level

\* C10: over the calls made for one identifier with a valid date while the clock never
\* goes backwards, the severity never decreases in PASS < INFO < WARN <
\* ERROR; after ERROR every later call gives ERROR.
C10_Monotone ==
    [][(checked' /\ ret'.kind = "return" /\ call'.iri \in Monitored) =>
          \A l \in seen[call'.iri] : Rank(l) <= Rank(ret'.level)]_vars

C10_Witness ==
    /\ DatedCall
    /\ call.iri = DatedIri(D2024)
    /\ seen[call.iri] = Levels
    /\ ret.level = "ERROR"

====
